---- MODULE Spec2Model ----
(***************************************************************************)
(* A model of the believer crate: the sparse parity check matrix, the      *)
(* erasure decoder and the n-events Monte-Carlo simulator.                 *)
(***************************************************************************)
EXTENDS Integers, Sequences, FiniteSets, TLC

VARIABLES
    \* ParityCheckMatrix construction (parity_check_matrix/mod.rs)
    n_bits_in,      \* argument of with_n_bits
    checks_in,      \* argument of with_checks
    matrix,         \* the ParityCheckMatrix at hand
    panicked,       \* TRUE once a constructor has panicked
    mop,            \* the last matrix operation that ran
    bits_in,        \* argument of keep / without
    derived,        \* the matrix returned by keep / without / a transform
    other,          \* the right operand of a concatenation
    indices,        \* argument of circulant_down / circulant_right
    \* ErasureDecoder (classical/decoders/erasure.rs)
    decoder,        \* the ErasureDecoder: code, erasure_prob, ressources
    code_in,        \* the matrix handed to for_code
    taken,          \* the matrix returned by take_code
    error,          \* argument of the last decode
    outcome,        \* result of the last decode
    dpc,            \* "unbound", "bound" (after for_code), "released" (after take_code)
    \* NEventsSimulator (decoders/n_events_simulator.rs), bound to decoder
    master_seed,    \* the seed the caller's master generator started from
    n_events_arg,   \* argument n_events of simulate_until_n_events_are_found_with_rng
    workers,        \* how many trial streams may run at once
    n_events,       \* self.n_events
    random_seeds,   \* self.random_seeds
    result,         \* self.result
    pc,             \* "init", "running" (inside run_the_simulation), "done" (returned)
    gens,           \* generator states: 0 the master rng, i + 1 the rng of stream i
    gen_draws,      \* how many values each generator has been asked for
    tpc,            \* per stream: "idle", "running", "done"
    thread_result,  \* per stream: the local result of simulate_thread_until_one_event_is_found
    n_successes,    \* the local accumulators of run_the_simulation
    n_failures,
    finish_order,   \* the streams in the order their results were folded
    thread_last,    \* per stream: the error sampled last and what decode returned for it
    \* SimulationResult (classical/decoders/simulation_results.rs)
    res_a,          \* three results a, b, c ...
    res_b,
    res_c,
    res_out,        \* ... and the results of the combine_with calls on them
    rpc,            \* "init", "combined"
    \* Generator (generators/random_check/generator.rs)
    generator,      \* maximal_bit_degree, bit_degrees, adjacency, active_bits, distribution
    check_degree,   \* argument of the last get_random_check
    random_check,   \* what get_random_check returned, when it ran last
    gop             \* the last generator operation that ran

pcmVars == <<n_bits_in, checks_in, matrix, panicked, mop, bits_in, derived, other,
             indices>>

decVars == <<decoder, code_in, taken, error, outcome, dpc>>

simVars == <<master_seed, n_events_arg, workers, n_events, random_seeds, result, pc,
             gens, gen_draws, tpc, thread_result, n_successes, n_failures,
             finish_order, thread_last>>

resVars == <<res_a, res_b, res_c, res_out, rpc>>

genVars == <<generator, check_degree, random_check, gop>>

vars == <<pcmVars, decVars, simVars, resVars, genVars>>

-----------------------------------------------------------------------------
(* Bounds of the model. *)

\* largest n_bits handed to with_n_bits together with raw (unsorted) checks
MaxRawBits == 2
\* largest number of checks in a raw check list
MaxRawChecks == 2
\* largest length of one raw check
MaxRawCheckLen == 2
\* largest n_bits of the matrices enumerated for keep, without and the decoder
\* (the codes of the crate's tests are added to them)
MaxBits == 2
\* largest number of checks of such a matrix
MaxChecks == 2
\* largest length of the list of bits handed to keep, without or decode
\* (decode is also handed the erasure of every bit, whatever its length)
MaxListLen == 2
\* the literal 9 of `(0..9)` in ParityCheckMatrix::without
WithoutRange == 9
\* largest n_events handed to the simulator
MaxEvents == 2
\* largest number of trial streams run at once
MaxWorkers == 2
\* cap on the trials of one stream (the code has none)
MaxTrials == 4
\* number of states of the stand-in random number generator
\* largest count of a SimulationResult handed to combine_with
MaxCount == 2

\* the number of bits of the Generator of the tests
GenBits == 3

\* largest maximal bit degree handed to set_maximal_bit_degree
MaxBitDegree == 2

\* largest check degree handed to get_random_check
MaxCheckDegree == 3

\* usize arithmetic wraps modulo this number when overflow checks are off
UsizeMod == 256

RngMod == 16
\* erasure_prob stands for erasure_prob / ProbScale, a probability in steps of a quarter
ProbScale == 4

-----------------------------------------------------------------------------
(* Generic helpers. *)

SeqsUpTo(S, n) == UNION {[1..k -> S] : k \in 0..n}

Range(s) == {s[i] : i \in 1..Len(s)}

\* Vec::sort on a Vec<usize>
SortedVec(s) == SortSeq(s, LAMBDA a, b : a < b)

Min(S) == CHOOSE x \in S : \A y \in S : x <= y

RECURSIVE SetToSortedSeq(_)
SetToSortedSeq(S) ==
    IF S = {} THEN <<>> ELSE <<Min(S)>> \o SetToSortedSeq(S \ {Min(S)})

-----------------------------------------------------------------------------
(* ParityCheckMatrix: check_ranges, bit_indices, n_bits. *)

new == [check_ranges |-> <<>>, bit_indices |-> <<>>, n_bits |-> 0]

with_n_bits(n) == [check_ranges |-> <<>>, bit_indices |-> <<>>, n_bits |-> n]

is_out_of_bounds_off_by_one(self, check) ==
    \E i \in 1..Len(check) : check[i] > self.n_bits

is_out_of_bounds(self, check) ==
    \E i \in 1..Len(check) : check[i] >= self.n_bits

some_checks_are_out_of_bounds(self, checks) ==
    \E i \in 1..Len(checks) : is_out_of_bounds(self, checks[i])

init_bit_indices(self, checks) == [self EXCEPT !.bit_indices = <<>>]

init_check_ranges(self, checks) == [self EXCEPT !.check_ranges = <<0>>]

add_check_range(self, check) ==
    LET n_elements_before == Len(self.bit_indices)
    IN  [self EXCEPT !.check_ranges = Append(@, n_elements_before + Len(check))]

add_bit_indices(self, check) ==
    [self EXCEPT !.bit_indices = @ \o SortedVec(check)]

add_check(self, check) == add_bit_indices(add_check_range(self, check), check)

RECURSIVE fill_with(_, _)
fill_with(self, checks) ==
    IF checks = <<>> THEN self
    ELSE fill_with(add_check(self, Head(checks)), Tail(checks))

\* with_checks panics exactly when this holds
with_checks_panics(self, checks) ==
    checks # <<>> /\ some_checks_are_out_of_bounds(self, checks)

\* the value with_checks returns when it does not panic
with_checks(self, checks) ==
    IF checks # <<>>
    THEN fill_with(init_check_ranges(init_bit_indices(self, checks), checks), checks)
    ELSE self

identity_with_n_bits(n_bits) ==
    [bit_indices  |-> [i \in 1..n_bits |-> i - 1],
     check_ranges |-> [i \in 1..(n_bits + 1) |-> i - 1],
     n_bits       |-> n_bits]

\* permu_matrix evaluates l - 1 on usize: with l = 0 it panics when overflow
\* checks are on, and otherwise pushes without end; no matrix is returned
permu_matrix_panics(l) == l = 0

\* bit_indices = [l - 1, 0, 1, ..., l - 2], check_ranges = [0, 1, ..., l]
permu_matrix(l) ==
    [bit_indices  |-> <<l - 1>> \o [i \in 1..(l - 1) |-> i - 1],
     check_ranges |-> [i \in 1..(l + 1) |-> i - 1],
     n_bits       |-> l]

\* circulant_down evaluates l - j on usize: it panics for an index j > l when
\* overflow checks are on (the rows are built only when l > 0)
circulant_down_panics(indices_arg, l) ==
    l > 0 /\ \E k \in 1..Len(indices_arg) : indices_arg[k] > l

\* row i of circulant_down: (l - j + i) % l for j in indices, on wrapping usize
circulant_down_row(indices_arg, l, i) ==
    [k \in 1..Len(indices_arg) |-> ((l - indices_arg[k] + i) % UsizeMod) % l]

circulant_down(indices_arg, l) ==
    with_checks(with_n_bits(l), [i \in 1..l |-> circulant_down_row(indices_arg, l, i - 1)])

\* row i of circulant_right: (j + i) % l for j in indices
circulant_right_row(indices_arg, l, i) ==
    [k \in 1..Len(indices_arg) |-> (indices_arg[k] + i) % l]

circulant_right(indices_arg, l) ==
    with_checks(with_n_bits(l), [i \in 1..l |-> circulant_right_row(indices_arg, l, i - 1)])

get_n_bits(self) == self.n_bits

get_n_checks(self) ==
    IF Len(self.check_ranges) > 0 THEN Len(self.check_ranges) - 1 ELSE 0

get_n_edges(self) == Len(self.bit_indices)

\* get_check(i) is Some iff both check_ranges[i] and check_ranges[i + 1] exist
get_check_is_some(self, check) == check + 2 <= Len(self.check_ranges)

\* the slice bit_indices[check_start..check_end] (0-based check index)
get_check(self, check) ==
    LET check_start == self.check_ranges[check + 1]
        check_end   == self.check_ranges[check + 2]
    IN  SubSeq(self.bit_indices, check_start + 1, check_end)

\* ChecksIter: yields get_check(0), get_check(1), ... until None
checks_iter(self) == [i \in 1..get_n_checks(self) |-> get_check(self, i - 1)]

\* keep with the test on the position within the check, not on the bit
keep_positions(self, bits) ==
    LET kept(check) == SelectSeq([k \in 1..Len(check) |-> k - 1],
                                 LAMBDA pos : \E i \in 1..Len(bits) : bits[i] = pos)
        checks == [i \in 1..get_n_checks(self) |-> kept(checks_iter(self)[i])]
    IN  with_checks(with_n_bits(get_n_bits(self)), checks)

\* keep without the filter: every check is kept whole
keep_every_bit(self, bits) ==
    with_checks(with_n_bits(get_n_bits(self)), checks_iter(self))

\* keep: every check filtered by membership in bits, rebuilt with with_checks
keep(self, bits) ==
    LET kept(check) == SelectSeq(check, LAMBDA bit : \E i \in 1..Len(bits) : bits[i] = bit)
        checks == [i \in 1..get_n_checks(self) |-> kept(checks_iter(self)[i])]
    IN  with_checks(with_n_bits(get_n_bits(self)), checks)

\* without: to_keep = (0..9).filter(|x| !bits.contains(x)), then keep(to_keep)
without(self, bits) ==
    LET to_keep == SelectSeq([i \in 1..WithoutRange |-> i - 1],
                          LAMBDA x : ~(\E i \in 1..Len(bits) : bits[i] = x))
    IN  keep(self, to_keep)

-----------------------------------------------------------------------------
(* Transposer: the roles of bits and checks are swapped.  The transposed    *)
(* matrix has one bit per check of self and one check per bit of self; it   *)
(* is built with with_n_bits(..).with_checks(..), as in the example of      *)
(* get_transposed_matrix.                                                   *)

\* the checks of the transposed matrix, with the input check b + 1 read for bit b
transposed_checks_shifted(self) ==
    [c \in 1..get_n_bits(self) |->
        SetToSortedSeq({b \in 0..(get_n_checks(self) - 2) :
                            \E k \in 1..Len(get_check(self, b + 1)) :
                                get_check(self, b + 1)[k] = c - 1})]

\* the checks of the transposed matrix: output check c holds bit b iff the
\* input check b holds bit c
transposed_checks(self) ==
    [c \in 1..get_n_bits(self) |->
        SetToSortedSeq({b \in 0..(get_n_checks(self) - 1) :
                            \E k \in 1..Len(get_check(self, b)) :
                                get_check(self, b)[k] = c - 1})]

\* Transposer::from(self).get_transposed_matrix()
Transposer_get_transposed_matrix(self) ==
    with_checks(with_n_bits(get_n_checks(self)), transposed_checks(self))

get_transposed_matrix(self) == Transposer_get_transposed_matrix(self)

-----------------------------------------------------------------------------
(* Concatener: the horizontal concatenation of two matrices, as the example *)
(* of get_horizontal_concat_with gives it: check i of the result is check i *)
(* of the left matrix followed by check i of the right matrix shifted by    *)
(* the bit count of the left matrix, a missing check counting as empty.     *)

Max(a, b) == IF a >= b THEN a ELSE b

\* check i of self, or the empty check when self has no check i
check_or_empty(self, i) == IF get_check_is_some(self, i) THEN get_check(self, i) ELSE <<>>

\* the concatenation cut to the checks of the left matrix
concat_horizontally_left_checks(left, right) ==
    LET shifted(i) == [k \in 1..Len(check_or_empty(right, i)) |->
                            check_or_empty(right, i)[k] + get_n_bits(left)]
        checks == [i \in 1..get_n_checks(left) |->
                        check_or_empty(left, i - 1) \o shifted(i - 1)]
    IN  with_checks(with_n_bits(get_n_bits(left) + get_n_bits(right)), checks)

\* Concatener::from(left, right).concat_horizontally()
concat_horizontally(left, right) ==
    LET shifted(i) == [k \in 1..Len(check_or_empty(right, i)) |->
                            check_or_empty(right, i)[k] + get_n_bits(left)]
        checks == [i \in 1..Max(get_n_checks(left), get_n_checks(right)) |->
                        check_or_empty(left, i - 1) \o shifted(i - 1)]
    IN  with_checks(with_n_bits(get_n_bits(left) + get_n_bits(right)), checks)

get_horizontal_concat_with(self, right) == concat_horizontally(self, right)

-----------------------------------------------------------------------------
(* Ranker: GF2 rank by sparse Gaussian elimination on caller-supplied       *)
(* scratch buffers.  rank_mtx holds, per column, the pivot row led by that  *)
(* column ({} when there is none); sum_vec is the buffer of the row sums.   *)

SymDiff(a, b) == (a \ b) \cup (b \ a)

\* the scratch matrix of a code: one empty pivot slot per bit
tmp_rank_pcm(self) == [col \in 1..get_n_bits(self) |-> {}]

\* XOR the row against the pivot led by its leading column until the row is
\* empty or no pivot shares its leading column
RECURSIVE reduce_row(_, _)
reduce_row(row, pivots) ==
    IF row = {} THEN {}
    ELSE IF pivots[Min(row) + 1] # {}
         THEN reduce_row(SymDiff(row, pivots[Min(row) + 1]), pivots)
         ELSE row

\* the number of pivots produced by the rows, starting from the pivots at hand
RECURSIVE eliminate(_, _)
eliminate(rows, pivots) ==
    IF rows = <<>> THEN 0
    ELSE LET row == reduce_row(Range(Head(rows)), pivots)
         IN  IF row = {}
             THEN eliminate(Tail(rows), pivots)
             ELSE 1 + eliminate(Tail(rows), [pivots EXCEPT ![Min(row) + 1] = row])

\* rank_mut: the rank, and the scratch buffers left cleared for the next call
rank_mut(self, rank_mtx, sum_vec) ==
    [rank     |-> eliminate(checks_iter(self), rank_mtx),
     rank_mtx |-> [col \in DOMAIN rank_mtx |-> {}],
     sum_vec  |-> <<>>]

-----------------------------------------------------------------------------
(* ErasureDecoder: code, erasure_prob, ressources. *)

None == [is_some |-> FALSE]

Some(v) == [is_some |-> TRUE, val |-> v]

\* with_prob panics when erasure_prob is outside 0.0 ..= 1.0
with_prob_panics(erasure_prob) == erasure_prob < 0 \/ erasure_prob > ProbScale

with_prob(erasure_prob) ==
    [erasure_prob |-> erasure_prob,
     code         |-> new,
     ressources   |-> [rank_mtx |-> None, sum_vec |-> None]]

for_code(self, code) ==
    LET rank_mtx == Some(tmp_rank_pcm(code))
        sum_vec  == Some(<<>>)
    IN  [self EXCEPT !.ressources = [rank_mtx |-> rank_mtx, sum_vec |-> sum_vec],
                     !.code = code]

\* take_code: mem::replace(&mut self.code, ParityCheckMatrix::new())
take_code(self) ==
    [code |-> self.code, self |-> [self EXCEPT !.code = new]]

\* decode with the rank compared with the number of bits of the code
decode_against_n_bits(self, err) ==
    IF ~self.ressources.rank_mtx.is_some \/ ~self.ressources.sum_vec.is_some
    THEN [result |-> "Panic", self |-> self]
    ELSE LET erased_parity_check == keep(self.code, err)
             ranked == rank_mut(erased_parity_check,
                                self.ressources.rank_mtx.val,
                                self.ressources.sum_vec.val)
             after == [self EXCEPT !.ressources =
                          [rank_mtx |-> Some(ranked.rank_mtx),
                           sum_vec  |-> Some(ranked.sum_vec)]]
         IN  [result |-> IF get_n_bits(self.code) - ranked.rank = 0
                         THEN "Success" ELSE "Failure",
              self   |-> after]

\* decode that leaves sum_vec out of the decoder
decode_keeps_sum_vec(self, err) ==
    IF ~self.ressources.rank_mtx.is_some \/ ~self.ressources.sum_vec.is_some
    THEN [result |-> "Panic", self |-> self]
    ELSE LET erased_parity_check == keep(self.code, err)
             ranked == rank_mut(erased_parity_check,
                                self.ressources.rank_mtx.val,
                                self.ressources.sum_vec.val)
             after == [self EXCEPT !.ressources =
                          [rank_mtx |-> Some(ranked.rank_mtx),
                           sum_vec  |-> None]]
         IN  [result |-> IF Len(err) < ranked.rank THEN "Underflow"
                         ELSE IF Len(err) - ranked.rank = 0
                              THEN "Success" ELSE "Failure",
              self   |-> after]

\* decode: Option::take().unwrap() both buffers, rank of code.keep(error),
\* buffers put back, Success iff error.len() - erased_rank == 0.  The usize
\* subtraction underflows when the rank exceeds error.len().
decode(self, err) ==
    IF ~self.ressources.rank_mtx.is_some \/ ~self.ressources.sum_vec.is_some
    THEN [result |-> "Panic", self |-> self]
    ELSE LET erased_parity_check == keep(self.code, err)
             ranked == rank_mut(erased_parity_check,
                                self.ressources.rank_mtx.val,
                                self.ressources.sum_vec.val)
             after == [self EXCEPT !.ressources =
                          [rank_mtx |-> Some(ranked.rank_mtx),
                           sum_vec  |-> Some(ranked.sum_vec)]]
         IN  [result |-> IF Len(err) < ranked.rank THEN "Underflow"
                         ELSE IF Len(err) - ranked.rank = 0
                              THEN "Success" ELSE "Failure",
              self   |-> after]

-----------------------------------------------------------------------------
(* Random number generators.  The caller's master generator and ChaCha8Rng  *)
(* are stood in for by one deterministic generator over RngMod states.      *)

\* the state after one draw
rng_next(state) == (5 * state + 3) % RngMod

\* rng.gen::<f64>(): a value of [0, 1) in steps of 1 / ProbScale, and the new state
gen_f64(state) ==
    [value |-> (rng_next(state) * ProbScale) \div RngMod, rng |-> rng_next(state)]

\* one u64 of rng.sample_iter(Standard), and the new state
gen_u64(state) == [value |-> rng_next(state), rng |-> rng_next(state)]

\* ChaCha8Rng::seed_from_u64
seed_from_u64(seed) == (7 * seed + 1) % RngMod

\* the state after n draws
RECURSIVE Advance(_, _)
Advance(state, n) == IF n = 0 THEN state ELSE Advance(rng_next(state), n - 1)

-----------------------------------------------------------------------------
(* ErasureDecoder: sampling of an erasure pattern. *)

next_bit_is_erased_inclusive(self, value) == value <= self.erasure_prob

\* next_bit_is_erased: rng.gen::<f64>() < self.erasure_prob
next_bit_is_erased(self, value) == value < self.erasure_prob

\* the bits first..n_bits - 1 that are erased, one draw per bit
RECURSIVE erase_from(_, _, _)
erase_from(self, first, rng) ==
    IF first >= get_n_bits(self.code) THEN [error |-> <<>>, rng |-> rng]
    ELSE LET drawn == gen_f64(rng)
             rest  == erase_from(self, first + 1, drawn.rng)
         IN  [error |-> IF next_bit_is_erased(self, drawn.value)
                        THEN <<first>> \o rest.error ELSE rest.error,
              rng   |-> rest.rng]

\* get_random_error_with_rng: (0..n_bits).filter(|_| next_bit_is_erased(rng)).collect()
get_random_error_with_rng(self, rng) == erase_from(self, 0, rng)

\* Decoder::decode_random_error_with_rng: decode(&get_random_error_with_rng(rng))
decode_random_error_with_rng(self, rng) ==
    LET sampled == get_random_error_with_rng(self, rng)
        decoded == decode(self, sampled.error)
    IN  [result |-> decoded.result, self |-> decoded.self, rng |-> sampled.rng]

\* DecodingResult::is_success of an ErasureResult
is_success(decoding_result) == decoding_result = "Success"

-----------------------------------------------------------------------------
(* SimulationResult: n_successes, n_failures. *)

SimulationResult_new == [n_successes |-> 0, n_failures |-> 0]

with_n_successes_and_failures(successes, failures) ==
    [n_successes |-> successes, n_failures |-> failures]

\* add_decoding_result counting every failure twice
add_decoding_result_twice(self, decoding_result) ==
    IF is_success(decoding_result)
    THEN [self EXCEPT !.n_successes = @ + 1]
    ELSE [self EXCEPT !.n_failures = @ + 2]

add_decoding_result(self, decoding_result) ==
    IF is_success(decoding_result)
    THEN [self EXCEPT !.n_successes = @ + 1]
    ELSE [self EXCEPT !.n_failures = @ + 1]

\* combine_with keeping the failures of self
combine_with_own_failures(self, other_result) ==
    [n_successes |-> self.n_successes + other_result.n_successes,
     n_failures  |-> self.n_failures]

combine_with(self, other_result) ==
    [n_successes |-> self.n_successes + other_result.n_successes,
     n_failures  |-> self.n_failures + other_result.n_failures]

has_not_both(self) == self.n_successes = 0 /\ self.n_failures = 0

has_not_at_least_one_success_and_one_failure(self) ==
    self.n_successes = 0 \/ self.n_failures = 0

get_n_successes(self) == self.n_successes

get_n_failures(self) == self.n_failures

get_n_iterations(self) == self.n_failures + self.n_successes

-----------------------------------------------------------------------------
(* NEventsSimulator. *)

take_one_more(n) == n + 1

\* how many seeds initialize_random_seeds_with_rng takes: take(self.n_events)
seeds_taken(n) == n

\* rng.sample_iter(Standard).take(n).collect(), and the state the rng is left in
RECURSIVE sample_seeds(_, _)
sample_seeds(n, rng) ==
    IF n = 0 THEN [seeds |-> <<>>, rng |-> rng, draws |-> 0]
    ELSE LET drawn == gen_u64(rng)
             rest  == sample_seeds(n - 1, drawn.rng)
         IN  [seeds |-> <<drawn.value>> \o rest.seeds,
              rng   |-> rest.rng,
              draws |-> 1 + rest.draws]

initialize_random_seeds_with_rng(n, rng) == sample_seeds(seeds_taken(n), rng)

\* get_thread_rng: ChaCha8Rng::seed_from_u64(self.random_seeds[thread_index])
get_thread_rng(seeds, thread_index) == seed_from_u64(seeds[thread_index + 1])

thread_rng_is_master(thread_index) == 0

\* the generator handed to decode_random_error_with_rng by stream thread_index:
\* its own `rng`, generator thread_index + 1
thread_rng_id(thread_index) == thread_index + 1

-----------------------------------------------------------------------------
(* Adjacency: which pairs of bits share a generated check, and how far to   *)
(* look.  Two bits are adjacent when putting them in one check would create *)
(* a cycle shorter than the minimal girth; a bit is adjacent to itself.     *)

Adjacency_with_n_bits(n_bits) == [recursion_depth |-> 0, neighbors |-> {}]

Adjacency_set_recursion_depth(self, depth) == [self EXCEPT !.recursion_depth = depth]

Adjacency_update_from_check(self, check) ==
    [self EXCEPT !.neighbors =
        @ \cup {{check[i], check[j]} : i, j \in 1..Len(check)}]

\* the bits within the given number of shared checks of the bits of S
RECURSIVE Reach(_, _, _)
Reach(self, S, steps) ==
    IF steps <= 0 THEN S
    ELSE Reach(self,
               S \cup {b \in UNION self.neighbors : \E a \in S : {a, b} \in self.neighbors},
               steps - 1)

Adjacency_get_bits_adjacent_to(self, bit) == Reach(self, {bit}, self.recursion_depth - 2)

-----------------------------------------------------------------------------
(* Generator of random checks under a maximal bit degree and a minimal      *)
(* girth.  Weights are 0 (never drawn) or 1.                                *)

Generator_new ==
    [maximal_bit_degree |-> 0,
     bit_degrees        |-> <<>>,
     adjacency          |-> Adjacency_with_n_bits(0),
     active_bits        |-> <<>>,
     distribution       |-> <<>>]

Generator_with_n_bits(n_bits) ==
    [maximal_bit_degree |-> 0,
     bit_degrees        |-> [i \in 1..n_bits |-> 0],
     adjacency          |-> Adjacency_with_n_bits(n_bits),
     active_bits        |-> [i \in 1..n_bits |-> i - 1],
     distribution       |-> [i \in 1..n_bits |-> 1]]

Generator_get_n_bits(self) == Len(self.bit_degrees)

set_minimal_girth(self, minimal_girth) ==
    [self EXCEPT !.adjacency = Adjacency_set_recursion_depth(@, minimal_girth \div 2)]

set_maximal_bit_degree(self, degree) == [self EXCEPT !.maximal_bit_degree = degree]

set_over_all_bits(self) ==
    [self EXCEPT !.active_bits = [i \in 1..Generator_get_n_bits(self) |-> i - 1]]

\* bits.sort(); bits.dedup()
set_over_bits(self, bits) == [self EXCEPT !.active_bits = SetToSortedSeq(Range(bits))]

\* Vec::swap_remove: the last element takes the place of the removed one
swap_remove(v, index) ==
    IF index = Len(v) THEN SubSeq(v, 1, Len(v) - 1)
    ELSE [SubSeq(v, 1, Len(v) - 1) EXCEPT ![index] = v[Len(v)]]

RECURSIVE remove_bits(_, _)
remove_bits(active_bits, bits) ==
    IF bits = <<>> THEN active_bits
    ELSE LET found == {i \in 1..Len(active_bits) : active_bits[i] = Head(bits)}
         IN  IF found = {} THEN remove_bits(active_bits, Tail(bits))
             ELSE remove_bits(swap_remove(active_bits, Min(found)), Tail(bits))

set_without_bits(self, bits) == [self EXCEPT !.active_bits = remove_bits(@, bits)]

set_distribution(self, distribution) == [self EXCEPT !.distribution = distribution]

get_bits_adjacent_to(self, bit) == Adjacency_get_bits_adjacent_to(self.adjacency, bit)

is_available_inclusive(self, bit) == self.bit_degrees[bit + 1] <= self.maximal_bit_degree

is_available(self, bit) == self.bit_degrees[bit + 1] < self.maximal_bit_degree

are_not_adjacent(self, bit_0, bit_1) == bit_1 \notin get_bits_adjacent_to(self, bit_0)

is_not_adjacent_to_check(self, bit, check) ==
    \A i \in 1..Len(check) : are_not_adjacent(self, check[i], bit)

get_available_bits_for_check(self, check) ==
    SelectSeq(self.active_bits,
              LAMBDA bit : is_available(self, bit) /\ is_not_adjacent_to_check(self, bit, check))

get_distribution_over(self, bits) == [i \in 1..Len(bits) |-> self.distribution[bits[i] + 1]]

\* the bits RandomBitGenerator can push: none when WeightedIndex::new fails
\* (no weight, or no positive weight), otherwise any bit of positive weight
drawable_bits(self, check) ==
    LET availables == get_available_bits_for_check(self, check)
        distribution == get_distribution_over(self, availables)
    IN  {availables[i] : i \in {k \in 1..Len(availables) : distribution[k] > 0}}

\* the checks get_candidate_check can return after `degree` more turns
RECURSIVE get_candidate_check(_, _, _)
get_candidate_check(self, check, degree) ==
    IF degree = 0 THEN {check}
    ELSE IF drawable_bits(self, check) = {}
         THEN get_candidate_check(self, check, degree - 1)
         ELSE UNION {get_candidate_check(self, Append(check, bit), degree - 1) :
                        bit \in drawable_bits(self, check)}

is_valid_check(check) == Len(check) >= 2

RECURSIVE update_degrees_from_check(_, _)
update_degrees_from_check(self, check) ==
    IF check = <<>> THEN self
    ELSE update_degrees_from_check(
            [self EXCEPT !.bit_degrees[Head(check) + 1] = @ + 1], Tail(check))

update_adjacency_from_check(self, check) ==
    [self EXCEPT !.adjacency = Adjacency_update_from_check(@, check)]

update_from_check(self, check) ==
    update_adjacency_from_check(update_degrees_from_check(self, check), check)

-----------------------------------------------------------------------------
(* Inputs. *)

\* the erasure probabilities 0, 1/4, 1/2 and 1
Probs == {0, 1, 2, ProbScale}

RawChecks(n) == SeqsUpTo(SeqsUpTo(0..n, MaxRawCheckLen), MaxRawChecks)

\* check lists whose checks are sorted and free of repeated bits
CleanChecks(n) ==
    SeqsUpTo({SetToSortedSeq(S) : S \in SUBSET (0..(n - 1))}, MaxChecks)

\* the lists of bits handed to keep and without: any order, repeats and the
\* out-of-range position n included
BitLists(n) == SeqsUpTo(0..n, MaxListLen)

\* the erasure patterns handed to decode: the same, and the erasure of all bits
Errors(n) == BitLists(n) \cup {[i \in 1..n |-> i - 1]}

\* the codes of test::repetition_code and test::hamming_code
repetition_code == [n |-> 3, checks |-> << <<0, 1>>, <<1, 2>> >>]

hamming_code ==
    [n |-> 7, checks |-> << <<0, 1, 2, 4>>, <<0, 1, 3, 5>>, <<0, 2, 3, 6>> >>]

\* the three-bit erasures test::hamming_code decodes
HammingErrors ==
    { <<0, 1, 2>>, <<2, 4, 5>>, <<0, 1, 4>>, <<3, 4, 5>>,
      <<2, 4, 6>>, <<1, 2, 3>>, <<0, 3, 4>>, <<0, 2, 5>> }

\* matrices wider than the literal of without, touching its last columns
WideCodes ==
    { [n |-> WithoutRange + 1,
       checks |-> << <<0, WithoutRange - 1>>, <<1, WithoutRange>> >>],
      [n |-> WithoutRange + 1,
       checks |-> << <<WithoutRange - 1, WithoutRange>> >>] }

\* the arguments of with_n_bits(n).with_checks(checks) that build the codes
CodeInputs ==
    UNION {{[n |-> n, checks |-> checks] : checks \in CleanChecks(n)} : n \in 0..MaxBits}
        \cup {repetition_code, hamming_code}

\* the erasure patterns handed to decode for a code
ErrorsOf(input) ==
    Errors(input.n) \cup (IF input = hamming_code THEN HammingErrors ELSE {})

\* the right matrix of the example of get_horizontal_concat_with (its left
\* matrix is the repetition code)
concat_right == [n |-> 4, checks |-> << <<1, 2, 3>>, <<0, 1>>, <<2, 3>> >>]

\* the right operands of a concatenation: no check, one, two and three checks
RightOperands ==
    { [n |-> 0, checks |-> <<>>],
      [n |-> 1, checks |-> << <<0>> >>],
      [n |-> 2, checks |-> << <<1>>, <<0, 1>> >>],
      concat_right }

\* the codes the simulator is run on: one unprotected bit, one check over two
\* bits, the identity over two bits, and the repetition code
SimCodes ==
    { [n |-> 1, checks |-> <<>>],
      [n |-> 2, checks |-> << <<0, 1>> >>],
      [n |-> 2, checks |-> << <<0>>, <<1>> >>],
      repetition_code }

\* the simulator variables of a specification that runs no simulation
SimIdle ==
    /\ master_seed = 0
    /\ n_events_arg = 0
    /\ workers = 1
    /\ n_events = 0
    /\ random_seeds = <<>>
    /\ result = SimulationResult_new
    /\ pc = "init"
    /\ gens = <<>>
    /\ gen_draws = <<>>
    /\ tpc = <<>>
    /\ thread_result = <<>>
    /\ n_successes = 0
    /\ n_failures = 0
    /\ finish_order = <<>>
    /\ thread_last = <<>>

\* the result variables of a specification that combines no results
ResIdle ==
    /\ res_a = SimulationResult_new
    /\ res_b = SimulationResult_new
    /\ res_c = SimulationResult_new
    /\ res_out = <<>>
    /\ rpc = "init"

\* the generator variables of a specification that generates no check
GenIdle ==
    /\ generator = Generator_new
    /\ check_degree = 0
    /\ random_check = None
    /\ gop = "new"

\* the decoder variables of a specification that runs no decoder
DecIdle ==
    /\ decoder = with_prob(0)
    /\ code_in = new
    /\ taken = new
    /\ error = <<>>
    /\ outcome = "none"
    /\ dpc = "unbound"

\* the matrix variables of a specification that builds no matrix by itself
PcmIdle ==
    /\ n_bits_in = 0
    /\ checks_in = <<>>
    /\ matrix = new
    /\ panicked = FALSE
    /\ mop = "none"
    /\ bits_in = <<>>
    /\ derived = new
    /\ other = new
    /\ indices = <<>>

-----------------------------------------------------------------------------
(* SpecPCM: construction of a matrix from a raw list of checks. *)

InitPCM ==
    /\ n_bits_in \in 0..MaxRawBits
    /\ checks_in \in RawChecks(n_bits_in)
    /\ matrix = new
    /\ panicked = FALSE
    /\ mop = "none"
    /\ bits_in = <<>>
    /\ derived = new
    /\ other = new
    /\ indices = <<>>
    /\ DecIdle
    /\ SimIdle
    /\ ResIdle
    /\ GenIdle

\* ParityCheckMatrix::with_n_bits(n_bits_in).with_checks(checks_in)
WithChecks ==
    /\ mop = "none"
    /\ mop' = "with_checks"
    /\ IF with_checks_panics(with_n_bits(n_bits_in), checks_in)
       THEN /\ panicked' = TRUE
            /\ UNCHANGED matrix
       ELSE /\ panicked' = FALSE
            /\ matrix' = with_checks(with_n_bits(n_bits_in), checks_in)
    /\ UNCHANGED <<n_bits_in, checks_in, bits_in, derived, other, indices, decVars,
                   simVars, resVars, genVars>>

\* ParityCheckMatrix::identity_with_n_bits(n_bits_in)
Identity ==
    /\ mop = "none"
    /\ mop' = "identity"
    /\ matrix' = identity_with_n_bits(n_bits_in)
    /\ UNCHANGED <<n_bits_in, checks_in, panicked, bits_in, derived, other, indices,
                   decVars, simVars, resVars, genVars>>

NextPCM == WithChecks \/ Identity

SpecPCM == InitPCM /\ [][NextPCM]_vars

-----------------------------------------------------------------------------
(* SpecProj: projections of a constructed matrix. *)

InitProj ==
    /\ \E input \in CodeInputs \cup WideCodes :
          /\ n_bits_in = input.n
          /\ checks_in = input.checks
    /\ matrix = with_checks(with_n_bits(n_bits_in), checks_in)
    /\ panicked = FALSE
    /\ mop = "with_checks"
    /\ bits_in = <<>>
    /\ derived = new
    /\ other = new
    /\ indices = <<>>
    /\ DecIdle
    /\ SimIdle
    /\ ResIdle
    /\ GenIdle

\* the operations that leave a constructed matrix in `matrix`
Constructors ==
    {"with_checks", "identity", "permu_matrix", "circulant_down", "circulant_right"}

\* matrix.keep(&bits)
Keep(bits) ==
    /\ mop \in Constructors
    /\ ~panicked
    /\ mop' = "keep"
    /\ bits_in' = bits
    /\ derived' = keep(matrix, bits)
    /\ UNCHANGED <<n_bits_in, checks_in, matrix, panicked, other, indices, decVars,
                   simVars, resVars, genVars>>

\* matrix.without(&bits)
Without(bits) ==
    /\ mop \in Constructors
    /\ ~panicked
    /\ mop' = "without"
    /\ bits_in' = bits
    /\ derived' = without(matrix, bits)
    /\ UNCHANGED <<n_bits_in, checks_in, matrix, panicked, other, indices, decVars,
                   simVars, resVars, genVars>>

\* matrix.get_transposed_matrix()
Transpose ==
    /\ mop = "with_checks"
    /\ mop' = "transpose"
    /\ derived' = get_transposed_matrix(matrix)
    /\ UNCHANGED <<n_bits_in, checks_in, matrix, panicked, bits_in, other, indices,
                   decVars, simVars, resVars, genVars>>

\* the transposed matrix is transposed again
TransposeBack ==
    /\ mop = "transpose"
    /\ mop' = "transpose_back"
    /\ derived' = get_transposed_matrix(derived)
    /\ UNCHANGED <<n_bits_in, checks_in, matrix, panicked, bits_in, other, indices,
                   decVars, simVars, resVars, genVars>>

\* matrix.get_horizontal_concat_with(&right)
HorizontalConcat(right) ==
    /\ mop = "with_checks"
    /\ mop' = "horizontal_concat"
    /\ other' = right
    /\ derived' = get_horizontal_concat_with(matrix, right)
    /\ UNCHANGED <<indices, n_bits_in, checks_in, matrix, panicked, bits_in, decVars,
                   simVars, resVars, genVars>>

NextProj ==
    \/ \E bits \in BitLists(n_bits_in) : Keep(bits)
    \/ \E bits \in BitLists(n_bits_in) : Without(bits)
    \/ Transpose
    \/ TransposeBack
    \/ \E input \in RightOperands :
            HorizontalConcat(with_checks(with_n_bits(input.n), input.checks))

SpecProj == InitProj /\ [][NextProj]_vars

-----------------------------------------------------------------------------
(* SpecCons: a matrix is built by one of the constructors and is then       *)
(* projected with keep or without.                                          *)

\* the lists of checks handed to with_checks: none, one or two checks, bits
\* in range, in any order and with repeats
ConsChecks(n) ==
    LET Checks == SeqsUpTo(0..(n - 1), MaxRawCheckLen)
    IN  {<<>>} \cup {<<a>> : a \in Checks} \cup {<<a, b>> : a, b \in Checks}

\* the index lists handed to circulant_down and circulant_right: any order,
\* repeats, and indices up to l + 1
IndexLists(l) == SeqsUpTo(0..(l + 1), MaxListLen) \ {<<>>}

\* the lists of bits handed to keep and without, which only test membership:
\* one list per set of positions, the out-of-range position n included
BitSets(n) == {SetToSortedSeq(S) : S \in SUBSET (0..n)}

InitCons ==
    /\ n_bits_in \in 0..MaxRawBits
    /\ \/ checks_in \in ConsChecks(n_bits_in) /\ indices = <<>>
       \/ checks_in = <<>> /\ indices \in IndexLists(n_bits_in)
    /\ matrix = new
    /\ panicked = FALSE
    /\ mop = "none"
    /\ bits_in = <<>>
    /\ derived = new
    /\ other = new
    /\ DecIdle
    /\ SimIdle
    /\ ResIdle
    /\ GenIdle

\* matrix = ParityCheckMatrix::permu_matrix(n_bits_in)
PermuMatrix ==
    /\ mop = "none"
    /\ mop' = "permu_matrix"
    /\ IF permu_matrix_panics(n_bits_in)
       THEN /\ panicked' = TRUE
            /\ UNCHANGED matrix
       ELSE /\ panicked' = FALSE
            /\ matrix' = permu_matrix(n_bits_in)
    /\ UNCHANGED <<n_bits_in, checks_in, bits_in, derived, other, indices, decVars,
                   simVars, resVars, genVars>>

\* matrix = ParityCheckMatrix::circulant_down(&indices, n_bits_in): on an
\* index above l the subtraction panics or wraps, as the build has it
CirculantDown ==
    /\ mop = "none"
    /\ mop' = "circulant_down"
    /\ \/ /\ circulant_down_panics(indices, n_bits_in)
          /\ panicked' = TRUE
          /\ UNCHANGED matrix
       \/ /\ panicked' = FALSE
          /\ matrix' = circulant_down(indices, n_bits_in)
    /\ UNCHANGED <<n_bits_in, checks_in, bits_in, derived, other, indices, decVars,
                   simVars, resVars, genVars>>

\* matrix = ParityCheckMatrix::circulant_right(&indices, n_bits_in)
CirculantRight ==
    /\ mop = "none"
    /\ mop' = "circulant_right"
    /\ matrix' = circulant_right(indices, n_bits_in)
    /\ UNCHANGED <<n_bits_in, checks_in, panicked, bits_in, derived, other, indices,
                   decVars, simVars, resVars, genVars>>

NextCons ==
    \/ WithChecks
    \/ Identity
    \/ PermuMatrix
    \/ CirculantDown
    \/ CirculantRight
    \/ \E bits \in BitSets(n_bits_in) : Keep(bits)
    \/ \E bits \in BitSets(n_bits_in) : Without(bits)

SpecCons == InitCons /\ [][NextCons]_vars

-----------------------------------------------------------------------------
(* SpecDec: an erasure decoder is created, bound to a code, asked to decode *)
(* erasure patterns and released.                                           *)

InitDec ==
    /\ \E input \in CodeInputs :
          /\ n_bits_in = input.n
          /\ checks_in = input.checks
    /\ matrix = new
    /\ panicked = FALSE
    /\ mop = "none"
    /\ bits_in = <<>>
    /\ derived = new
    /\ other = new
    /\ indices = <<>>
    /\ decoder = with_prob(ProbScale \div 2)
    /\ code_in = with_checks(with_n_bits(n_bits_in), checks_in)
    /\ taken = new
    /\ error = <<>>
    /\ outcome = "none"
    /\ dpc = "unbound"
    /\ SimIdle
    /\ ResIdle
    /\ GenIdle

\* ErasureDecoder::with_prob(p).for_code(code_in)
ForCode ==
    /\ dpc = "unbound"
    /\ decoder' = for_code(decoder, code_in)
    /\ dpc' = "bound"
    /\ UNCHANGED <<code_in, taken, error, outcome, pcmVars, simVars, resVars, genVars>>

\* decoder.decode(&err)
Decode(err) ==
    /\ dpc = "bound"
    /\ outcome = "none"
    /\ error' = err
    /\ LET decoded == decode(decoder, err)
       IN  /\ outcome' = decoded.result
           /\ decoder' = decoded.self
    /\ UNCHANGED <<code_in, taken, dpc, pcmVars, simVars, resVars, genVars>>

\* decoder.take_code()
TakeCode ==
    /\ dpc = "bound"
    /\ taken' = take_code(decoder).code
    /\ decoder' = take_code(decoder).self
    /\ dpc' = "released"
    /\ UNCHANGED <<code_in, error, outcome, pcmVars, simVars, resVars, genVars>>

NextDec ==
    \/ ForCode
    \/ \E err \in ErrorsOf([n |-> n_bits_in, checks |-> checks_in]) : Decode(err)
    \/ TakeCode

SpecDec == InitDec /\ [][NextDec]_vars

-----------------------------------------------------------------------------
(* Spec: NEventsSimulator::from(&mut decoder)                               *)
(*           .simulate_until_n_events_are_found_with_rng(n_events, rng)     *)
(* on a bound erasure decoder.  The streams are the items of the lazy map   *)
(* of run_the_simulation: they run one after the other, in index order.     *)
(* SpecPar runs the same streams in any order and interleaving, as many at  *)
(* once as there are workers (the `.into_par_iter()` of run_the_simulation).*)

Streams == 0..(n_events_arg - 1)

InitSim ==
    /\ PcmIdle
    /\ ResIdle
    /\ GenIdle
    /\ \E input \in SimCodes : code_in = with_checks(with_n_bits(input.n), input.checks)
    /\ \E p \in Probs : decoder = for_code(with_prob(p), code_in)
    /\ taken = new
    /\ error = <<>>
    /\ outcome = "none"
    /\ dpc = "bound"
    /\ master_seed \in 0..(RngMod - 1)
    /\ n_events_arg \in 0..MaxEvents
    /\ n_events = 0
    /\ random_seeds = <<>>
    /\ result = SimulationResult_new
    /\ pc = "init"
    /\ gens = [g \in 0..n_events_arg |-> IF g = 0 THEN master_seed ELSE 0]
    /\ gen_draws = [g \in 0..n_events_arg |-> 0]
    /\ tpc = [i \in Streams |-> "idle"]
    /\ thread_result = [i \in Streams |-> SimulationResult_new]
    /\ n_successes = 0
    /\ n_failures = 0
    /\ finish_order = <<>>
    /\ thread_last = [i \in Streams |-> [error |-> <<>>, outcome |-> "none"]]

InitSeq == InitSim /\ workers = 1

InitPar == InitSim /\ workers \in 1..MaxWorkers

\* initialize_simulation_with_n_events_and_rng, then run_the_simulation is entered
InitializeSimulation ==
    /\ pc = "init"
    /\ LET seeded == initialize_random_seeds_with_rng(n_events_arg, gens[0])
       IN  /\ random_seeds' = seeded.seeds
           /\ gens' = [gens EXCEPT ![0] = seeded.rng]
           /\ gen_draws' = [gen_draws EXCEPT ![0] = @ + seeded.draws]
    /\ n_events' = n_events_arg
    /\ pc' = "running"
    /\ UNCHANGED <<master_seed, n_events_arg, workers, result, tpc, thread_result, thread_last,
                   n_successes, n_failures, finish_order, pcmVars, decVars, resVars, genVars>>

\* simulate_thread_until_one_event_is_found is entered: rng and result are created
BeginThread(i) ==
    /\ pc = "running"
    /\ i < n_events
    /\ tpc[i] = "idle"
    /\ tpc' = [tpc EXCEPT ![i] = "running"]
    /\ gens' = [gens EXCEPT ![i + 1] = get_thread_rng(random_seeds, i)]
    /\ thread_result' = [thread_result EXCEPT ![i] = SimulationResult_new]
    /\ UNCHANGED <<master_seed, n_events_arg, workers, n_events, random_seeds, result,
                   pc, gen_draws, n_successes, n_failures, finish_order, thread_last,
                   pcmVars, decVars, resVars, genVars>>

\* a stream that starts whatever the streams before it are doing
StartThreadUnordered(i) ==
    /\ tpc[i] = "idle"
    /\ BeginThread(i)

\* the next item of the lazy map: the streams before it are done
StartThread(i) ==
    /\ \A j \in Streams : j < i => tpc[j] = "done"
    /\ BeginThread(i)

\* a free worker picks any stream that has not run
StartThreadPar(i) ==
    /\ Cardinality({j \in Streams : tpc[j] = "running"}) < workers
    /\ BeginThread(i)

\* one turn of the while loop: one error is sampled and decoded, its outcome tallied
Trial(i) ==
    /\ tpc[i] = "running"
    /\ has_not_at_least_one_success_and_one_failure(thread_result[i])
    /\ get_n_iterations(thread_result[i]) < MaxTrials
    /\ LET g == thread_rng_id(i)
           decoded == decode_random_error_with_rng(decoder, gens[g])
           sampled == get_random_error_with_rng(decoder, gens[g])
       IN  /\ thread_result' =
                  [thread_result EXCEPT ![i] = add_decoding_result(@, decoded.result)]
           /\ thread_last' =
                  [thread_last EXCEPT ![i] = [error   |-> sampled.error,
                                              outcome |-> decoded.result]]
           /\ gens' = [gens EXCEPT ![g] = decoded.rng]
           /\ gen_draws' = [gen_draws EXCEPT ![g] = @ + get_n_bits(decoder.code)]
           /\ decoder' = decoded.self
    /\ UNCHANGED <<master_seed, n_events_arg, workers, n_events, random_seeds, result,
                   pc, tpc, n_successes, n_failures, finish_order,
                   code_in, taken, error, outcome, dpc, pcmVars, resVars, genVars>>

\* the while loop ends, the stream's result is returned and added to the sums
FinishThread(i) ==
    /\ tpc[i] = "running"
    /\ ~has_not_at_least_one_success_and_one_failure(thread_result[i])
    /\ tpc' = [tpc EXCEPT ![i] = "done"]
    /\ n_successes' = n_successes + get_n_successes(thread_result[i])
    /\ n_failures' = n_failures + get_n_failures(thread_result[i])
    /\ finish_order' = Append(finish_order, i)
    /\ UNCHANGED <<master_seed, n_events_arg, workers, n_events, random_seeds, result,
                   pc, gens, gen_draws, thread_result, thread_last, pcmVars,
                   decVars, resVars, genVars>>

\* the map is exhausted: self.result is set and the simulator is returned
Return ==
    /\ pc = "running"
    /\ \A i \in Streams : tpc[i] = "done"
    /\ result' = with_n_successes_and_failures(n_successes, n_failures)
    /\ pc' = "done"
    /\ UNCHANGED <<master_seed, n_events_arg, workers, n_events, random_seeds,
                   gens, gen_draws, tpc, thread_result, thread_last, n_successes, n_failures,
                   finish_order, pcmVars, decVars, resVars, genVars>>

Next ==
    \/ InitializeSimulation
    \/ \E i \in Streams : StartThread(i)
    \/ \E i \in Streams : Trial(i)
    \/ \E i \in Streams : FinishThread(i)
    \/ Return

Spec == InitSeq /\ [][Next]_vars

NextPar ==
    \/ InitializeSimulation
    \/ \E i \in Streams : StartThreadPar(i)
    \/ \E i \in Streams : Trial(i)
    \/ \E i \in Streams : FinishThread(i)
    \/ Return

SpecPar == InitPar /\ [][NextPar]_vars

-----------------------------------------------------------------------------
(* SpecRes: SimulationResult::combine_with on three results a, b and c. *)

\* the results with_n_successes_and_failures builds from small counts
Results ==
    {with_n_successes_and_failures(successes, failures) :
        successes \in 0..MaxCount, failures \in 0..MaxCount}

InitRes ==
    /\ res_a \in Results
    /\ res_b \in Results
    /\ res_c \in Results
    /\ res_out = <<>>
    /\ rpc = "init"
    /\ GenIdle
    /\ PcmIdle
    /\ DecIdle
    /\ SimIdle

\* a.combine_with(b), b.combine_with(a), a.combine_with(b).combine_with(c),
\* a.combine_with(b.combine_with(c)), a.combine_with(new()), new().combine_with(a)
CombineWith ==
    /\ rpc = "init"
    /\ rpc' = "combined"
    /\ res_out' = [ab   |-> combine_with(res_a, res_b),
                   ba   |-> combine_with(res_b, res_a),
                   ab_c |-> combine_with(combine_with(res_a, res_b), res_c),
                   a_bc |-> combine_with(res_a, combine_with(res_b, res_c)),
                   a_new |-> combine_with(res_a, SimulationResult_new),
                   new_a |-> combine_with(SimulationResult_new, res_a)]
    /\ UNCHANGED <<res_a, res_b, res_c, pcmVars, decVars, simVars, genVars>>

NextRes == CombineWith

SpecRes == InitRes /\ [][NextRes]_vars

-----------------------------------------------------------------------------
(* SpecGen: a fresh Generator is given its maximal bit degree and is then   *)
(* asked for checks, between changes of its active bits, its weights and    *)
(* its minimal girth.                                                       *)

\* the minimal girth of test::doesnt_create_cycle_smaller_than_minimal_girth
Girths == {6}

\* the lists handed to set_over_bits and set_without_bits
GenBitLists(n_bits) == SeqsUpTo(0..(n_bits - 1), MaxListLen)

\* the weights handed to set_distribution: one per bit, none negative; as in
\* test::generate_bit_according_to_distribution one bit may have weight 0
Distributions(n_bits) ==
    {[i \in 1..n_bits |-> IF i = zero THEN 0 ELSE 1] : zero \in 1..n_bits}

InitGen ==
    /\ generator = Generator_with_n_bits(GenBits)
    /\ check_degree = 0
    /\ random_check = None
    /\ gop = "with_n_bits"
    /\ PcmIdle
    /\ DecIdle
    /\ SimIdle
    /\ ResIdle

SetMaximalBitDegree(degree) ==
    /\ gop = "with_n_bits"
    /\ generator' = set_maximal_bit_degree(generator, degree)
    /\ gop' = "set_maximal_bit_degree"
    /\ UNCHANGED <<check_degree, random_check, pcmVars, decVars, simVars, resVars>>

\* chained to set_maximal_bit_degree, as in the tests
SetMinimalGirth(minimal_girth) ==
    /\ gop = "set_maximal_bit_degree"
    /\ generator' = set_minimal_girth(generator, minimal_girth)
    /\ gop' = "set_minimal_girth"
    /\ UNCHANGED <<check_degree, random_check, pcmVars, decVars, simVars, resVars>>

SetOverAllBits ==
    /\ gop # "with_n_bits"
    /\ generator' = set_over_all_bits(generator)
    /\ gop' = "set_over_all_bits"
    /\ check_degree' = 0
    /\ random_check' = None
    /\ UNCHANGED <<pcmVars, decVars, simVars, resVars>>

SetOverBits(bits) ==
    /\ gop # "with_n_bits"
    /\ generator' = set_over_bits(generator, bits)
    /\ gop' = "set_over_bits"
    /\ check_degree' = 0
    /\ random_check' = None
    /\ UNCHANGED <<pcmVars, decVars, simVars, resVars>>

SetWithoutBits(bits) ==
    /\ gop # "with_n_bits"
    /\ generator' = set_without_bits(generator, bits)
    /\ gop' = "set_without_bits"
    /\ check_degree' = 0
    /\ random_check' = None
    /\ UNCHANGED <<pcmVars, decVars, simVars, resVars>>

\* chained to the setters above, as in the tests
SetDistribution(distribution) ==
    /\ gop \in {"set_maximal_bit_degree", "set_minimal_girth"}
    /\ generator' = set_distribution(generator, distribution)
    /\ gop' = "set_distribution"
    /\ UNCHANGED <<check_degree, random_check, pcmVars, decVars, simVars, resVars>>

\* generator.get_random_check(degree, rng): any candidate the rng can draw
GetRandomCheck(degree) ==
    /\ gop # "with_n_bits"
    /\ gop' = "get_random_check"
    /\ check_degree' = degree
    /\ \E candidate_check \in get_candidate_check(generator, <<>>, degree) :
            IF is_valid_check(candidate_check)
            THEN /\ generator' = update_from_check(generator, candidate_check)
                 /\ random_check' = Some(candidate_check)
            ELSE /\ generator' = generator
                 /\ random_check' = None
    /\ UNCHANGED <<pcmVars, decVars, simVars, resVars>>

NextGen ==
    \/ \E degree \in 0..MaxBitDegree : SetMaximalBitDegree(degree)
    \/ \E minimal_girth \in Girths : SetMinimalGirth(minimal_girth)
    \/ SetOverAllBits
    \/ \E bits \in GenBitLists(Generator_get_n_bits(generator)) : SetOverBits(bits)
    \/ \E bits \in GenBitLists(Generator_get_n_bits(generator)) : SetWithoutBits(bits)
    \/ \E distribution \in Distributions(Generator_get_n_bits(generator)) :
            SetDistribution(distribution)
    \/ \E degree \in 0..MaxCheckDegree : GetRandomCheck(degree)

SpecGen == InitGen /\ [][NextGen]_vars

-----------------------------------------------------------------------------
(* Claims about the construction of a matrix. *)

\* C8: with_n_bits(n).with_checks(checks) panics iff some check of the list
\* holds a bit index >= n; when it does not panic the matrix has n bits and
\* every stored bit index is below n.
C8_PanicsIffOutOfBounds ==
    mop = "with_checks" =>
        /\ panicked <=>
                \E i \in 1..Len(checks_in) :
                    \E j \in 1..Len(checks_in[i]) : checks_in[i][j] >= n_bits_in
        /\ ~panicked =>
                /\ matrix.n_bits = n_bits_in
                /\ \A k \in 1..Len(matrix.bit_indices) :
                        matrix.bit_indices[k] < matrix.n_bits

\* a list whose first check is in bounds and whose last check is not
C8_Witness ==
    /\ mop = "with_checks"
    /\ panicked
    /\ Len(checks_in) = 2
    /\ checks_in[1] = <<0>>
    /\ checks_in[2] = <<0, n_bits_in>>

NonEmptyChecks(checks) == SelectSeq(checks, LAMBDA check : check # <<>>)

\* C9: with_checks removes zero-length checks: get_n_checks() is the number
\* of non-empty input checks and get_check(i) is the i-th non-empty input
\* check (sorted).
C9_EmptyChecksRemoved ==
    (mop = "with_checks" /\ ~panicked) =>
        /\ get_n_checks(matrix) = Len(NonEmptyChecks(checks_in))
        /\ \A i \in 1..Len(NonEmptyChecks(checks_in)) :
                /\ get_check_is_some(matrix, i - 1)
                /\ get_check(matrix, i - 1) = SortedVec(NonEmptyChecks(checks_in)[i])

\* C15: for every n >= 0, identity_with_n_bits(n) has n bits and n checks,
\* check i is exactly the singleton {i}, and the matrix compares equal (==) to
\* with_n_bits(n).with_checks([[0],[1],...,[n-1]]).
C15_IdentityEqualsSingletonChecks ==
    mop = "identity" =>
        /\ get_n_bits(matrix) = n_bits_in
        /\ get_n_checks(matrix) = n_bits_in
        /\ \A i \in 0..(n_bits_in - 1) : get_check(matrix, i) = <<i>>
        /\ matrix = with_checks(with_n_bits(n_bits_in), [i \in 1..n_bits_in |-> <<i - 1>>])

\* the complement of bits within 0..n - 1, ascending
Complement(bits, n) == SetToSortedSeq((0..(n - 1)) \ Range(bits))

\* C10: for every matrix M, of any bit count, and every list bits,
\* M.without(bits) equals M.keep(C), C the complement of bits within
\* 0..M.get_n_bits().
C10_WithoutIsKeepOfComplement ==
    mop = "without" => derived = keep(matrix, Complement(bits_in, get_n_bits(matrix)))

\* C11: M.keep(bits) has the n_bits of M and the checks of M, in order, each
\* restricted to the positions that occur in bits; the result depends only on
\* the set of values in bits, not on their order or repetition.
C11_KeepRestrictsEveryCheck ==
    mop = "keep" =>
        /\ get_n_bits(derived) = get_n_bits(matrix)
        /\ get_n_checks(derived) = get_n_checks(matrix)
        /\ \A c \in 0..(get_n_checks(matrix) - 1) :
                get_check(derived, c)
                    = SelectSeq(get_check(matrix, c), LAMBDA bit : bit \in Range(bits_in))
        /\ derived = keep(matrix, SetToSortedSeq(Range(bits_in)))

\* an unsorted list cuts the repetition code down to its last two columns
C11_Witness ==
    /\ mop = "keep"
    /\ bits_in = <<2, 1>>
    /\ get_n_checks(matrix) = 2
    /\ get_check(matrix, 0) = <<0, 1>>
    /\ get_check(derived, 0) = <<1>>
    /\ get_check(derived, 1) = <<1, 2>>

\* no check of the matrix is empty
HasNoEmptyCheck(self) ==
    \A c \in 0..(get_n_checks(self) - 1) : get_check(self, c) # <<>>

\* C12: a transpose yields a matrix whose bit count is the check count of M
\* and whose check count is the bit count of M, with bit b in output check c
\* iff input check b contains bit c; for M with no empty checks, transposing
\* twice gives back M (same n_bits, same checks in the same order).
C12_TransposeSwapsAndInverts ==
    /\ mop = "transpose" =>
            /\ get_n_bits(derived) = get_n_checks(matrix)
            /\ get_n_checks(derived) = get_n_bits(matrix)
            /\ \A b \in 0..(get_n_checks(matrix) - 1) :
                    \A c \in 0..(get_n_bits(matrix) - 1) :
                        b \in Range(get_check(derived, c))
                            <=> c \in Range(get_check(matrix, b))
    /\ (mop = "transpose_back" /\ HasNoEmptyCheck(matrix)) =>
            /\ get_n_bits(derived) = get_n_bits(matrix)
            /\ get_n_checks(derived) = get_n_checks(matrix)
            /\ \A c \in 0..(get_n_checks(matrix) - 1) :
                    get_check(derived, c) = get_check(matrix, c)

\* the Hamming code of the tests, transposed twice
C12_Witness ==
    /\ mop = "transpose_back"
    /\ HasNoEmptyCheck(matrix)
    /\ get_n_bits(matrix) = 7
    /\ get_check(derived, 2) = <<0, 2, 3, 6>>

\* the bits of check i of L, and the bits of check i of R shifted by the bit
\* count of L (a matrix without a check i gives none)
ConcatBits(L, R, i) ==
    Range(check_or_empty(L, i))
        \cup {bit + get_n_bits(L) : bit \in Range(check_or_empty(R, i))}

\* C13: for any two matrices L and R (including when R has more checks than
\* L), L.get_horizontal_concat_with(R) has the same number of checks as L, and
\* its i-th check is the union of the i-th check of L and the i-th check of R
\* with the bit indices of R shifted by L.get_n_bits().
C13_ConcatHasChecksOfLeft ==
    mop = "horizontal_concat" =>
        /\ get_n_checks(derived) = get_n_checks(matrix)
        /\ \A i \in 0..(get_n_checks(matrix) - 1) :
                Range(get_check(derived, i)) = ConcatBits(matrix, other, i)

\* C13, amended: L.get_horizontal_concat_with(R) has L.get_n_bits() +
\* R.get_n_bits() bits and as many checks as the matrix with more checks; its
\* i-th check is the union of the i-th check of L and the shifted i-th check
\* of R, a matrix that has no i-th check contributing nothing.
C13_ConcatHasChecksOfLonger ==
    mop = "horizontal_concat" =>
        /\ get_n_bits(derived) = get_n_bits(matrix) + get_n_bits(other)
        /\ get_n_checks(derived) = Max(get_n_checks(matrix), get_n_checks(other))
        /\ \A i \in 0..(get_n_checks(derived) - 1) :
                get_check(derived, i) = SetToSortedSeq(ConcatBits(matrix, other, i))

\* the example of get_horizontal_concat_with: two checks on the left, three on
\* the right, three in the result
C13_Witness ==
    /\ mop = "horizontal_concat"
    /\ matrix = with_checks(with_n_bits(3), << <<0, 1>>, <<1, 2>> >>)
    /\ other = with_checks(with_n_bits(4), << <<1, 2, 3>>, <<0, 1>>, <<2, 3>> >>)
    /\ derived = with_checks(with_n_bits(7),
                              << <<0, 1, 4, 5, 6>>, <<1, 2, 3, 4>>, <<5, 6>> >>)

-----------------------------------------------------------------------------
(* Claims about the erasure decoder. *)

\* the columns of T sum to zero over GF2: every check holds an even number of them
ColumnsSumToZero(code, T) ==
    \A i \in 1..get_n_checks(code) :
        Cardinality(Range(get_check(code, i - 1)) \cap T) % 2 = 0

\* no non-empty set of the columns of S sums to zero
ColumnsIndependent(code, S) ==
    \A T \in (SUBSET S) \ {{}} : ~ColumnsSumToZero(code, T)

\* the GF2 rank of the code restricted to the columns of E
RestrictedRank(code, E) ==
    LET sizes == {Cardinality(S) : S \in {X \in SUBSET E : ColumnsIndependent(code, X)}}
    IN  CHOOSE k \in sizes : \A j \in sizes : j <= k

IsDistinct(s) == \A i, j \in 1..Len(s) : i # j => s[i] # s[j]

\* C5: for a bound decoder and an erasure pattern of distinct positions below
\* n_bits (the empty one included), decode returns Success iff the GF2 rank of
\* the code restricted to the erased columns is the number of erased
\* positions, and Failure otherwise, never anything else; for the checks
\* [[0,1],[1,2]] over 3 bits every pattern of at most 2 bits is Success and
\* the full pattern is Failure.
C5_DecodeIsRankTest ==
    (outcome # "none" /\ IsDistinct(error) /\ \A i \in 1..Len(error) : error[i] < n_bits_in) =>
        /\ outcome \in {"Success", "Failure"}
        /\ outcome = "Success" <=> RestrictedRank(code_in, Range(error)) = Len(error)
        /\ (n_bits_in = repetition_code.n /\ checks_in = repetition_code.checks) =>
               (outcome = "Success" <=> Len(error) <= 2)

\* the full erasure of the repetition code is decoded and fails
C5_Witness ==
    /\ dpc = "bound"
    /\ checks_in = repetition_code.checks
    /\ error = <<0, 1, 2>>
    /\ outcome = "Failure"

\* the pattern with every repeated entry after its first occurrence removed
RECURSIVE Dedup(_)
Dedup(s) ==
    IF s = <<>> THEN <<>>
    ELSE LET init == Dedup(SubSeq(s, 1, Len(s) - 1))
         IN  IF s[Len(s)] \in Range(init) THEN init ELSE Append(init, s[Len(s)])

\* C6: decode compares the rank with the number of DISTINCT erased positions:
\* decode(pattern) returns what decode(pattern with duplicates removed) returns.
C6_DuplicatesIgnored ==
    (dpc = "bound" /\ outcome # "none") =>
        outcome = decode(decoder, Dedup(error)).result

\* erased_rank of decode: the rank of the code restricted to the error, on
\* the decoder's scratch workspace
erased_rank(dec, err) ==
    rank_mut(keep(dec.code, err),
             dec.ressources.rank_mtx.val, dec.ressources.sum_vec.val).rank

\* C22: for a bound decoder and any error list (any length, positions in or
\* out of range, repeats allowed), the rank of code.keep(error) is at most
\* error.len(), so the subtraction error.len() - rank in decode never
\* underflows.
C22_RankAtMostErrorLen ==
    (dpc = "bound" /\ outcome # "none") =>
        /\ erased_rank(decoder, error) <= Len(error)
        /\ outcome # "Underflow"

\* the repetition code decoded on the error [1, 1]: rank 1 under length 2
C22_Witness ==
    /\ dpc = "bound"
    /\ checks_in = repetition_code.checks
    /\ error = <<1, 1>>
    /\ erased_rank(decoder, error) = 1
    /\ outcome = "Failure"

\* C7: take_code returns exactly the matrix bound by for_code, and afterwards
\* the decoder is in the unbound default state of a fresh with_prob(p)
\* decoder: an empty code and no scratch workspace.
C7_TakeCodeResets ==
    dpc = "released" =>
        /\ taken = code_in
        /\ decoder = with_prob(decoder.erasure_prob)

-----------------------------------------------------------------------------
(* Claims about the simulator. *)

\* one stream run alone from the state rng, up to the cap on its trials
RECURSIVE StreamAlone(_, _, _)
StreamAlone(dec, rng, local) ==
    IF ~(local.n_successes = 0 \/ local.n_failures = 0) THEN local
    ELSE IF local.n_successes + local.n_failures >= MaxTrials THEN local
    ELSE LET sampled == get_random_error_with_rng(dec, rng)
             decoded == decode(dec, sampled.error)
         IN  StreamAlone(decoded.self, sampled.rng,
                         IF decoded.result = "Success"
                         THEN [local EXCEPT !.n_successes = @ + 1]
                         ELSE [local EXCEPT !.n_failures = @ + 1])

\* the seed of stream i: the (i + 1)-th value of the master generator
SeedOf(i) == Advance(master_seed, i + 1)

\* the streams 0..n - 1 run one at a time, in index order, and summed
RECURSIVE OneAtATime(_)
OneAtATime(n) ==
    IF n = 0 THEN [n_successes |-> 0, n_failures |-> 0]
    ELSE LET before == OneAtATime(n - 1)
             alone  == StreamAlone(for_code(with_prob(decoder.erasure_prob), code_in),
                                   seed_from_u64(SeedOf(n - 1)),
                                   [n_successes |-> 0, n_failures |-> 0])
         IN  [n_successes |-> before.n_successes + alone.n_successes,
              n_failures  |-> before.n_failures + alone.n_failures]

\* C1: for a fixed master seed, bound decoder and n_events, the aggregated
\* result the simulator returns is the same for every order and interleaving
\* of the streams and every number of workers: it is the result of the
\* streams run one at a time in index order.
C1_ResultIndependentOfSchedule ==
    pc = "done" => result = OneAtATime(n_events_arg)

\* two workers, the second stream folded before the first, with another result
C1_Witness ==
    /\ pc = "done"
    /\ workers = 2
    /\ finish_order = <<1, 0>>
    /\ thread_result[0] # thread_result[1]

\* C2: exactly n_events seeds are drawn from the master generator before the
\* first trial of any stream; afterwards the master generator is never read
\* again, and every draw of stream i comes from its own generator, seeded
\* with seed i.
C2_SeedsFirstThenOwnGenerators ==
    /\ pc = "init" =>
           /\ gen_draws = [g \in 0..n_events_arg |-> 0]
           /\ \A i \in Streams : tpc[i] = "idle"
    /\ pc # "init" =>
           /\ Len(random_seeds) = n_events_arg
           /\ \A i \in Streams : random_seeds[i + 1] = SeedOf(i)
           /\ gen_draws[0] = n_events_arg
           /\ gens[0] = Advance(master_seed, n_events_arg)
           /\ \A i \in Streams :
                  tpc[i] # "idle" =>
                      /\ gen_draws[i + 1] =
                             get_n_iterations(thread_result[i]) * get_n_bits(code_in)
                      /\ gens[i + 1] =
                             Advance(seed_from_u64(random_seeds[i + 1]), gen_draws[i + 1])

\* the first stream is done and the second has drawn from its generator
C2_Witness ==
    /\ pc = "running"
    /\ n_events = 2
    /\ tpc[0] = "done"
    /\ tpc[1] = "running"
    /\ gen_draws[2] > get_n_bits(code_in)

\* the successes, and the failures, of the streams 0..n - 1 added up
RECURSIVE SumOfSuccesses(_)
SumOfSuccesses(n) ==
    IF n = 0 THEN 0 ELSE SumOfSuccesses(n - 1) + thread_result[n - 1].n_successes

RECURSIVE SumOfFailures(_)
SumOfFailures(n) ==
    IF n = 0 THEN 0 ELSE SumOfFailures(n - 1) + thread_result[n - 1].n_failures

\* C3: for n_events >= 1, whenever the simulator returns, the aggregated
\* result is the elementwise sum of the n_events per-stream results and both
\* of its counts are at least n_events, so its rates never divide by zero.
C3_ResultIsSumAndNonzero ==
    (pc = "done" /\ n_events_arg >= 1) =>
        /\ result.n_successes = SumOfSuccesses(n_events_arg)
        /\ result.n_failures = SumOfFailures(n_events_arg)
        /\ result.n_successes >= n_events_arg
        /\ result.n_failures >= n_events_arg
        /\ get_n_iterations(result) > 0

\* two streams have returned, one of them after more than two trials
C3_Witness ==
    /\ pc = "done"
    /\ n_events_arg = 2
    /\ get_n_iterations(result) > 4
    /\ result.n_successes # result.n_failures

\* C4: there is no trial cap or cancellation: the simulator returns only if
\* every stream has seen both a Success and a Failure, and with n_events >= 1
\* and an erasure probability of 0, where every sampled error is empty and
\* decodes to Success, no stream ever sees a Failure and it never returns.
C4_ReturnsOnlyWhenBothSeen ==
    /\ \A i \in Streams :
           tpc[i] = "done" =>
               thread_result[i].n_successes > 0 /\ thread_result[i].n_failures > 0
    /\ pc = "done" => \A i \in Streams : tpc[i] = "done"
    /\ (n_events_arg >= 1 /\ decoder.erasure_prob = 0) =>
           /\ pc # "done"
           /\ \A i \in Streams : tpc[i] # "done" /\ thread_result[i].n_failures = 0

\* with p = 0 the first stream has only successes after all the trials modelled
C4_Witness ==
    /\ n_events_arg >= 1
    /\ decoder.erasure_prob = 0
    /\ pc = "running"
    /\ tpc[0] = "running"
    /\ thread_result[0].n_successes = MaxTrials
    /\ thread_result[0].n_failures = 0

\* C18: each trial stream tallies exactly one outcome per decode call and
\* stops at the first trial after which its local result has both a nonzero
\* success count and a nonzero failure count: it never stops before and never
\* runs a further trial, so the count of the outcome class observed last is
\* exactly 1.
C18_OneTallyPerDecodeUntilBoth ==
    \A i \in Streams :
        LET successes == thread_result[i].n_successes
            failures  == thread_result[i].n_failures
        IN  /\ (successes + failures) * get_n_bits(decoder.code) = gen_draws[i + 1]
            /\ thread_last[i].outcome = "none" <=> successes + failures = 0
            /\ tpc[i] = "done" => (successes >= 1 /\ failures >= 1)
            /\ (successes >= 1 /\ failures >= 1) =>
                    IF thread_last[i].outcome = "Success"
                    THEN successes = 1
                    ELSE failures = 1

\* a stream stopped by its first failure, after three successes
C18_Witness ==
    /\ n_events >= 1
    /\ tpc[0] = "done"
    /\ thread_result[0] = with_n_successes_and_failures(3, 1)
    /\ thread_last[0].outcome = "Failure"

\* C19: at no point are two trial streams inside decode on the scratch
\* workspace of the decoder: decode runs within one turn of the one running
\* stream, and outside a decode both buffers are in the decoder.
C19_OneStreamOnTheWorkspace ==
    /\ Cardinality({i \in Streams : tpc[i] = "running"}) <= 1
    /\ decoder.ressources.rank_mtx.is_some
    /\ decoder.ressources.sum_vec.is_some

\* the second stream is decoding on the workspace the first one has left
C19_Witness ==
    /\ n_events = 2
    /\ tpc[0] = "done"
    /\ tpc[1] = "running"
    /\ get_n_iterations(thread_result[1]) >= 1
    /\ thread_last[1].error # <<>>

\* the decoder as for_code returns it
FreshlyBound == for_code(with_prob(decoder.erasure_prob), code_in)

-----------------------------------------------------------------------------
(* Claims about SimulationResult. *)

\* C14: combine_with is an elementwise sum that is commutative and
\* associative, and combining with the empty result new() returns the same
\* result.
C14_CombineIsCommutativeMonoid ==
    rpc = "combined" =>
        /\ get_n_successes(res_out.ab) = get_n_successes(res_a) + get_n_successes(res_b)
        /\ get_n_failures(res_out.ab) = get_n_failures(res_a) + get_n_failures(res_b)
        /\ res_out.ab = res_out.ba
        /\ res_out.ab_c = res_out.a_bc
        /\ res_out.a_new = res_a
        /\ res_out.new_a = res_a

\* three results that differ in both counts have been combined
C14_Witness ==
    /\ rpc = "combined"
    /\ res_a = with_n_successes_and_failures(1, 2)
    /\ res_b = with_n_successes_and_failures(2, 0)
    /\ res_c = with_n_successes_and_failures(0, 1)
    /\ res_out.ab_c = with_n_successes_and_failures(3, 3)

-----------------------------------------------------------------------------
(* Claims about the Generator of random checks. *)

\* C16: get_random_check(check_degree, rng) returns either None or a check
\* with exactly check_degree bits, never a shorter check.
C16_NoneOrFullDegree ==
    gop = "get_random_check" =>
        (random_check = None \/ Len(random_check.val) = check_degree)

\* C17: after set_maximal_bit_degree(d) on a fresh generator and any sequence
\* of get_random_check, set_over_bits, set_over_all_bits and set_without_bits
\* calls, no bit's degree exceeds d.
C17_DegreesWithinMaximum ==
    gop # "with_n_bits" =>
        \A bit \in 0..(Generator_get_n_bits(generator) - 1) :
            generator.bit_degrees[bit + 1] <= generator.maximal_bit_degree

\* bit 1 is in two checks, its maximum, and the check generated last is over
\* the other two bits
C17_Witness ==
    /\ gop = "get_random_check"
    /\ generator.maximal_bit_degree = 2
    /\ generator.bit_degrees = <<2, 2, 2>>
    /\ random_check = Some(<<0, 2>>)

-----------------------------------------------------------------------------
(* Claims about the stored form of a constructed matrix. *)

\* s is in ascending order (equal neighbours allowed)
IsAscending(s) == \A i, j \in 1..Len(s) : i < j => s[i] <= s[j]

\* every stored bit index is below n_bits
IndicesInRange(self) ==
    \A k \in 1..Len(self.bit_indices) : self.bit_indices[k] < self.n_bits

\* the stored indices of every check are in ascending order
ChecksAscending(self) ==
    \A check \in 0..(get_n_checks(self) - 1) : IsAscending(get_check(self, check))

\* the offset table has a last entry, is non-decreasing and ends at the
\* number of stored indices
OffsetsEndAtEdges(self) ==
    /\ Len(self.check_ranges) > 0
    /\ IsAscending(self.check_ranges)
    /\ self.check_ranges[Len(self.check_ranges)] = get_n_edges(self)

\* an offset table without any entry, over no stored index
OffsetsAbsent(self) ==
    /\ self.check_ranges = <<>>
    /\ self.bit_indices = <<>>

\* check i of self is check i of the list of checks, sorted
InInputOrder(self, checks) ==
    checks # <<>> =>
        /\ get_n_checks(self) = Len(checks)
        /\ \A i \in 1..Len(checks) : get_check(self, i - 1) = SortedVec(checks[i])

\* the checks the constructor named by mop was given, in its order
ConstructorChecks ==
    CASE mop = "with_checks"     -> checks_in
      [] mop = "identity"        -> [i \in 1..n_bits_in |-> <<i - 1>>]
      [] mop = "permu_matrix"    ->
            [i \in 1..n_bits_in |-> IF i = 1 THEN <<n_bits_in - 1>> ELSE <<i - 2>>]
      [] mop = "circulant_down"  ->
            [i \in 1..n_bits_in |-> circulant_down_row(indices, n_bits_in, i - 1)]
      [] mop = "circulant_right" ->
            [i \in 1..n_bits_in |-> circulant_right_row(indices, n_bits_in, i - 1)]

\* the checks of matrix restricted to the bits that keep / without retain
ProjectedChecks ==
    LET retained(bit) ==
            IF mop = "keep"
            THEN bit \in Range(bits_in)
            ELSE bit \notin Range(bits_in) /\ bit < WithoutRange
    IN  [i \in 1..get_n_checks(matrix) |->
            SelectSeq(get_check(matrix, i - 1), retained)]

\* C21: every matrix produced by with_checks, identity_with_n_bits,
\* permu_matrix, circulant_down, circulant_right, keep or without has every
\* stored bit index below n_bits, an offset table that is non-decreasing and
\* whose last entry is the number of stored indices, and checks whose stored
\* indices are ascending and which come in input order.
C21_ProducedMatricesWellFormed ==
    /\ (mop \in Constructors /\ ~panicked) =>
          /\ IndicesInRange(matrix)
          /\ OffsetsEndAtEdges(matrix)
          /\ ChecksAscending(matrix)
          /\ InInputOrder(matrix, ConstructorChecks)
    /\ mop \in {"keep", "without"} =>
          /\ IndicesInRange(derived)
          /\ OffsetsEndAtEdges(derived)
          /\ ChecksAscending(derived)
          /\ InInputOrder(derived, ProjectedChecks)

\* the same with an absent offset table allowed for a matrix without checks
C21_WellFormedOrWithoutTable ==
    /\ (mop \in Constructors /\ ~panicked) =>
          /\ IndicesInRange(matrix)
          /\ OffsetsEndAtEdges(matrix) \/ OffsetsAbsent(matrix)
          /\ ChecksAscending(matrix)
          /\ InInputOrder(matrix, ConstructorChecks)
    /\ mop \in {"keep", "without"} =>
          /\ IndicesInRange(derived)
          /\ OffsetsEndAtEdges(derived) \/ OffsetsAbsent(derived)
          /\ ChecksAscending(derived)
          /\ InInputOrder(derived, ProjectedChecks)

====
